---------------------------- MODULE Spec2Model ----------------------------
(***************************************************************************)
(* appvkek: audit of a wallet's ERC-20 approve() grants.                   *)
(*                                                                         *)
(* The model follows src/src/main.rs (main, query) and src/src/util.rs     *)
(* (validate_address_format, perform_check_is_eoa, get_address_from_str,   *)
(* parse_256_method_arguments, create_contract, query_allowance_balance).  *)
(*                                                                         *)
(* Strings are sequences of one-character strings, so that slicing,        *)
(* lower-casing, prefix tests and equality are computed character by       *)
(* character as the Rust code computes them.                               *)
(***************************************************************************)
EXTENDS Integers, Sequences, FiniteSets, TLC

(***************************************************************************)
(* Bounds of the model.                                                    *)
(***************************************************************************)
\* longest transaction history the explorer returns
MaxTxs == 3
\* largest chunk size tried besides the program's own RPC_RATE_LIMIT
MaxChunk == 2
\* most whole 64-character words in a call data given to the decoder alone
MaxWords == 3

(***************************************************************************)
(* Program constants.                                                      *)
(***************************************************************************)
\* main.rs:219  const RPC_RATE_LIMIT: usize = 2000
RPC_RATE_LIMIT == 2000
\* util.rs:106  &long_hex_str[10..]  ("0x" and the 8 characters of the method-id)
MethodIdEnd == 10
\* util.rs:109,117  one 256-bit argument is 64 hex characters
WordLen == 64
\* main.rs:199  arguments[0][24..]
SpenderOffset == 24
\* main.rs:183  res.len() < 2
MinApproveArgs == 2
\* util.rs:26  [0-9a-f]{40}
AddressDigits == 40
\* util.rs:43  &address[2..]
PrefixLen == 2
\* web3 Address (H160): from_slice asserts a slice of 20 bytes
AddressBytes == 20

(***************************************************************************)
(* Strings.                                                                *)
(***************************************************************************)
UpperLetters ==
    <<"A","B","C","D","E","F","G","H","I","J","K","L","M",
      "N","O","P","Q","R","S","T","U","V","W","X","Y","Z">>

LowerLetters ==
    <<"a","b","c","d","e","f","g","h","i","j","k","l","m",
      "n","o","p","q","r","s","t","u","v","w","x","y","z">>

Digits == {"0","1","2","3","4","5","6","7","8","9"}

\* the class [0-9a-f] of the regular expression of validate_address_format
HexLower == Digits \cup {"a","b","c","d","e","f"}

\* what hex::decode accepts: digits and letters a-f of either case
HexAny == HexLower \cup {"A","B","C","D","E","F"}

\* char::to_lowercase on the ASCII range
LowerChar(ch) ==
    IF \E k \in 1..Len(UpperLetters) : UpperLetters[k] = ch
    THEN LowerLetters[CHOOSE k \in 1..Len(UpperLetters) : UpperLetters[k] = ch]
    ELSE ch

\* str::to_lowercase
to_lowercase(s) == [k \in 1..Len(s) |-> LowerChar(s[k])]

\* str::starts_with
starts_with(s, prefix) ==
    /\ Len(s) >= Len(prefix)
    /\ SubSeq(s, 1, Len(prefix)) = prefix

\* &s[from..] for from <= s.len() (the callers guard the range)
SliceFrom(s, from) == SubSeq(s, from + 1, Len(s))

\* n copies of one character
Rep(ch, n) == [k \in 1..n |-> ch]

\* "0x"
HexPrefix == <<"0","x">>

\* "0x095ea7b3", the method-id of approve(address,uint256) (main.rs:173)
ApproveMethodId == <<"0","x","0","9","5","e","a","7","b","3">>

(***************************************************************************)
(* Results: Rust's Result, and a panic (an out-of-range slice, a failed    *)
(* assertion), which unwinds the whole process.                            *)
(***************************************************************************)
Ok(v) == [tag |-> "Ok", val |-> v]
Err(e) == [tag |-> "Err", err |-> e]
Panic == [tag |-> "Panic"]
NotCalled == [tag |-> "NotCalled"]

is_ok(r) == r.tag = "Ok"
is_err(r) == r.tag = "Err"

(***************************************************************************)
(* util.rs: validate_address_format                                        *)
(***************************************************************************)
\* a variant that matches the address as it is written
validate_case_sensitive(address) ==
    LET AllHex(s) == \A k \in 1..Len(s) : s[k] \in HexLower
    IN  \/ /\ Len(address) = AddressDigits
           /\ AllHex(address)
        \/ /\ Len(address) = PrefixLen + AddressDigits
           /\ starts_with(address, HexPrefix)
           /\ AllHex(SliceFrom(address, PrefixLen))

\* ^(0x)?[0-9a-f]{40}$ matched against the lower-cased address
validate_address_format(address) ==
    LET lowercase_address == to_lowercase(address)
        AllHex(s) == \A k \in 1..Len(s) : s[k] \in HexLower
    IN  \/ /\ Len(lowercase_address) = AddressDigits
           /\ AllHex(lowercase_address)
        \/ /\ Len(lowercase_address) = PrefixLen + AddressDigits
           /\ starts_with(lowercase_address, HexPrefix)
           /\ AllHex(SliceFrom(lowercase_address, PrefixLen))

(***************************************************************************)
(* util.rs: parse_256_method_arguments                                     *)
(***************************************************************************)
RECURSIVE ParseLoopDropLast(_, _, _)
\* a variant of the loop whose bound is strict
ParseLoopDropLast(arguments_hex_str, offset_i, res_vec) ==
    IF offset_i + WordLen < Len(arguments_hex_str)
    THEN ParseLoopDropLast(arguments_hex_str, offset_i + WordLen,
             Append(res_vec, SubSeq(arguments_hex_str, offset_i + 1, offset_i + WordLen)))
    ELSE res_vec

RECURSIVE ParseLoop(_, _, _)
\* while offset_i + 64 <= arguments_hex_str.len() { push; offset_i += 64 }
ParseLoop(arguments_hex_str, offset_i, res_vec) ==
    IF offset_i + WordLen <= Len(arguments_hex_str)
    THEN ParseLoop(arguments_hex_str, offset_i + WordLen,
             Append(res_vec, SubSeq(arguments_hex_str, offset_i + 1, offset_i + WordLen)))
    ELSE res_vec

\* a variant with the strict loop bound
parse_256_strict_bound(long_hex_str) ==
    IF Len(long_hex_str) = 0 THEN Ok(<<>>)
    ELSE IF Len(long_hex_str) < MethodIdEnd THEN Panic
    ELSE LET arguments_hex_str == SliceFrom(long_hex_str, MethodIdEnd)
         IN  IF Len(arguments_hex_str) < WordLen
             THEN Err("not long enough")
             ELSE Ok(ParseLoopDropLast(arguments_hex_str, 0, <<>>))

\* a variant without the length check before the loop
parse_256_no_length_check(long_hex_str) ==
    IF Len(long_hex_str) = 0 THEN Ok(<<>>)
    ELSE IF Len(long_hex_str) < MethodIdEnd THEN Panic
    ELSE Ok(ParseLoop(SliceFrom(long_hex_str, MethodIdEnd), 0, <<>>))

parse_256_method_arguments(long_hex_str) ==
    IF Len(long_hex_str) = 0 THEN Ok(<<>>)
    \* &long_hex_str[10..] of a shorter string is out of range
    ELSE IF Len(long_hex_str) < MethodIdEnd THEN Panic
    ELSE LET arguments_hex_str == SliceFrom(long_hex_str, MethodIdEnd)
         IN  IF Len(arguments_hex_str) < WordLen
             THEN Err("not long enough")
             ELSE Ok(ParseLoop(arguments_hex_str, 0, <<>>))

(***************************************************************************)
(* util.rs: hex::decode and Address::from_slice, as used on &address[2..]  *)
(***************************************************************************)
\* hex::decode: an odd length or a character outside [0-9a-fA-F] is an error;
\* otherwise one byte per two characters (a byte is written as its two
\* lower-case digits)
hex_decode(s) ==
    IF Len(s) % 2 # 0 THEN Err("odd length")
    ELSE IF \E k \in 1..Len(s) : s[k] \notin HexAny THEN Err("invalid character")
    ELSE Ok([k \in 1..(Len(s) \div 2) |-> <<LowerChar(s[2 * k - 1]), LowerChar(s[2 * k])>>])

\* Address::from_slice(bytes): panics unless the slice holds 20 bytes
address_from_slice(bytes) ==
    IF Len(bytes) = AddressBytes THEN Ok(bytes) ELSE Panic

\* util.rs:75-81 get_address_from_str
get_address_from_str(address) ==
    IF ~validate_address_format(address) THEN Err("address format")
    ELSE LET decoded == hex_decode(SliceFrom(address, PrefixLen))
         IN  IF is_err(decoded) THEN Panic      \* .unwrap()
             ELSE address_from_slice(decoded.val)

\* util.rs:131-150 create_contract (ABI_STR is a fixed, well-formed ABI)
create_contract(contract_address_str) ==
    IF ~validate_address_format(contract_address_str) THEN Err("address format")
    ELSE LET decoded == hex_decode(SliceFrom(contract_address_str, PrefixLen))
         IN  IF is_err(decoded) THEN Err("hex decoding")
             ELSE address_from_slice(decoded.val)

\* util.rs:160-175 query_allowance_balance, up to the RPC call
allowance_addresses(owner_address_str, spender_address_str) ==
    IF ~validate_address_format(owner_address_str) THEN Err("owner address format")
    ELSE IF ~validate_address_format(spender_address_str) THEN Err("spender address format")
    ELSE LET o == get_address_from_str(owner_address_str)
             s == get_address_from_str(spender_address_str)
         IN  IF o.tag # "Ok" THEN o
             ELSE IF s.tag # "Ok" THEN s
             ELSE Ok(<<o.val, s.val>>)

\* util.rs:38-52 perform_check_is_eoa, up to the eth_getCode call
eoa_check_address(address) ==
    IF ~validate_address_format(address) THEN Err("address format")
    ELSE LET decoded == hex_decode(SliceFrom(address, PrefixLen))
         IN  IF is_err(decoded) THEN Err("hex decoding")
             ELSE address_from_slice(decoded.val)

\* a variant that takes any code for an EOA's
is_eoa_always(code_str_len) == TRUE

\* util.rs:61-68: an account is an EOA iff its code is empty
is_eoa_of_code(code_str_len) == ~(code_str_len > 0)

(***************************************************************************)
(* The inputs: addresses, call data, transactions.                         *)
(***************************************************************************)
Addr(ch) == HexPrefix \o Rep(ch, AddressDigits)

\* the wallet address given on the command line
AddressArgs ==
    { Addr("a"),                                 \* canonical
      Addr("A"),                                 \* upper-case digits
      Rep("a", AddressDigits),                   \* valid format, no 0x prefix
      HexPrefix \o Rep("a", AddressDigits - 1) } \* too short: invalid format

\* contract addresses as the explorer may spell them in tx.to
CtLower == Addr("c")
CtUpper == Addr("C")
CtOther == Addr("d")
Contracts == {CtLower, CtUpper, CtOther}

\* a 32-byte argument word holding an address: 24 zeros, then its 40 digits
AddressWord(ch) == Rep("0", SpenderOffset) \o Rep(ch, AddressDigits)

\* amounts 1 and 1000 (0x3e8)
Amount1 == Rep("0", WordLen - 1) \o <<"1">>
Amount1000 == Rep("0", WordLen - 3) \o <<"3","e","8">>

\* "0xa9059cbb", the method-id of transfer(address,uint256)
TransferMethodId == <<"0","x","a","9","0","5","9","c","b","b">>

ApproveInput(spender_ch, amount) == ApproveMethodId \o AddressWord(spender_ch) \o amount

Tx(from, to, is_error, input) ==
    [from |-> from, to |-> to, is_error |-> is_error, input |-> input]

NoTx == [from |-> <<>>, to |-> <<>>, is_error |-> FALSE, input |-> <<>>]

\* well-formed approve transactions of the owner
GoodInputs ==
    { ApproveInput("e", Amount1), ApproveInput("E", Amount1), ApproveInput("e", Amount1000) }

\* approve call data of the owner that is cut short, or has a trailing partial word
OddInputs ==
    { ApproveMethodId,
      ApproveMethodId \o AddressWord("e"),
      ApproveMethodId \o Rep("0", WordLen - 1),
      ApproveInput("e", Amount1) \o Rep("0", 8) }

\* call data that is no approve call
OtherInputs ==
    { TransferMethodId \o AddressWord("e") \o Amount1, HexPrefix }

TxDomain ==
    { Tx(Addr("a"), CtLower, FALSE, input) :
          input \in GoodInputs \cup OddInputs \cup OtherInputs }
    \cup { Tx(Addr("a"), to, FALSE, ApproveInput("e", Amount1)) : to \in Contracts }
    \cup { Tx(Addr("A"), CtLower, FALSE, ApproveInput("e", Amount1)),
           Tx(Addr("b"), CtLower, FALSE, ApproveInput("e", Amount1)),
           Tx(Addr("a"), CtLower, TRUE, ApproveInput("e", Amount1)),
           Tx(Addr("b"), CtOther, FALSE, ApproveMethodId),
           Tx(Addr("a"), CtOther, TRUE, ApproveMethodId) }

\* what the remote reads may return
NameResults == {Ok("TOK"), Err("rpc")}
DecimalsResults == {Ok(2), Err("rpc")}
AllowanceResults == {Ok(500), Ok(25), Err("rpc")}
CodeResults == {Ok(0), Ok(1), Err("rpc")}      \* Ok(length of the code)

\* the chunk sizes tried: small ones, and the program's own
ChunkSizes == (1..MaxChunk) \cup {RPC_RATE_LIMIT}

(***************************************************************************)
(* Call data given to the decoder alone: "0x" and a method-id, whole       *)
(* words, and a trailing part shorter than a word.                         *)
(***************************************************************************)
WordSet == {AddressWord("e"), AddressWord("E"), Amount1}

Tails == {<<>>, <<"0">>, Rep("f", WordLen - 1)}

RECURSIVE WordSeqs(_)
\* the sequences of at most n words
WordSeqs(n) ==
    IF n = 0 THEN {<<>>}
    ELSE LET shorter == WordSeqs(n - 1)
         IN  shorter \cup {Append(ws, w) : ws \in {x \in shorter : Len(x) = n - 1}, w \in WordSet}

CallData(head, words, tail) == [head |-> head, words |-> words, tail |-> tail]

NoCallData == CallData(<<>>, <<>>, <<>>)

CallDataDomain ==
    { CallData(h, ws, t) : h \in {ApproveMethodId, TransferMethodId},
                           ws \in WordSeqs(MaxWords), t \in Tails }
    \cup { NoCallData, CallData(HexPrefix, <<>>, <<>>) }

RECURSIVE Concat(_)
\* the words one after another
Concat(words) == IF words = <<>> THEN <<>> ELSE Head(words) \o Concat(Tail(words))

\* the string a call data is
Flatten(cd) == cd.head \o Concat(cd.words) \o cd.tail

(***************************************************************************)
(* The state of one run.                                                   *)
(***************************************************************************)
VARIABLES
    pc,                   \* where main is: "start", "await_code", "fetch_history",
                          \* "extract", "loop", "await_batch", "done",
                          \* "exit_failure" (process::exit(1)), "panicked"
    address,              \* cmd_args.address, until main.rs:160 reads it last
    code_bytes,           \* what eth_getCode returned (util.rs:52)
    txs_res,              \* how get_list_normal_transactions ended (main.rs:169)
    owner_address,        \* main.rs:160
    txs_len,              \* txs.len(), while the for loop of main.rs:171 runs
    txs_left,             \* transactions of txs the for loop has yet to reach
    inserted,             \* iterations of that loop that reached main.rs:202
    tx,                   \* the loop variable of main.rs:171
    arguments,            \* what parse_256_method_arguments returned for tx
    ct_txs,               \* main.rs:158: contract -> spenders (the keys of the inner map)
    rate_limit,           \* RPC_RATE_LIMIT of this run: the program's 2000, or a
                          \* chunk size small enough for several batches to happen
    num_outputs_array,    \* main.rs:220
    running_added_item,   \* main.rs:221
    i,                    \* the loop variable of main.rs:226
    ct_txs_vec,           \* main.rs:224
    outputs,              \* main.rs:227: the query futures of the current batch
    stdout,               \* the report entries printed (main.rs:244-250)
    stderr,               \* the messages of eprintln!
    issued,               \* every contract read sent so far
    failed,               \* every contract read that returned an error
    returned,             \* what every contract read that returned has returned
    batches,              \* the contracts of each batch awaited so far
    cd,                   \* the parts of the call data given to the decoder alone
    long_hex_str,         \* the argument of parse_256_method_arguments called alone
    callee,               \* the function of util.rs called alone on an address
    ret,                  \* what that function returned
    spender_addr          \* main.rs:199-200, computed alone from an argument word

main_vars ==
    <<pc, address, code_bytes, txs_res, owner_address, txs_len, txs_left, inserted, tx,
      arguments, ct_txs, rate_limit, num_outputs_array, running_added_item, i, ct_txs_vec, outputs,
      stdout, stderr, issued, failed, returned, batches>>

decoder_vars == <<cd, long_hex_str>>

address_vars == <<callee, ret, spender_addr>>

pure_vars == <<decoder_vars, address_vars>>

vars == <<main_vars, pure_vars>>

EmptyMap == [k \in {} |-> {}]

\* no read has returned
NoReads == [r \in {} |-> NotCalled]

Init ==
    /\ pc = "start"
    /\ address \in AddressArgs
    /\ code_bytes = NotCalled
    /\ txs_res = NotCalled
    /\ owner_address = <<>>
    /\ txs_len = 0
    /\ txs_left = 0
    /\ inserted = 0
    /\ tx = NoTx
    /\ arguments = NotCalled
    /\ ct_txs = EmptyMap
    /\ rate_limit \in ChunkSizes
    /\ num_outputs_array = 0
    /\ running_added_item = 0
    /\ i = 0
    /\ ct_txs_vec = <<>>
    /\ outputs = <<>>
    /\ stdout = <<>>
    /\ stderr = <<>>
    /\ issued = {}
    /\ failed = {}
    /\ returned = NoReads
    /\ batches = <<>>
    /\ cd = NoCallData
    /\ long_hex_str = <<>>
    /\ callee = "none"
    /\ ret = NotCalled
    /\ spender_addr = <<>>

(***************************************************************************)
(* main.rs:137-150 with util.rs:37-69: the owner must be an EOA.           *)
(***************************************************************************)
\* perform_check_is_eoa up to its await: format check, hex decoding, Address
ValidateOwner ==
    /\ pc = "start"
    /\ LET a == eoa_check_address(address)
       IN  CASE a.tag = "Err" ->
                  /\ pc' = "exit_failure"
                  /\ stderr' = Append(stderr, a.err)
             [] a.tag = "Panic" ->
                  /\ pc' = "panicked"
                  /\ UNCHANGED stderr
             [] OTHER ->
                  /\ pc' = "await_code"
                  /\ UNCHANGED stderr
    /\ UNCHANGED <<address, code_bytes, txs_res, owner_address, txs_len, txs_left, inserted, tx, arguments,
                   ct_txs, rate_limit, num_outputs_array, running_added_item, i,
                   ct_txs_vec, outputs, stdout, issued, failed, returned, batches, pure_vars>>

\* eth_getCode returns; util.rs:52-68, main.rs:139-160
CodeReadReturns ==
    /\ pc = "await_code"
    /\ \E res \in CodeResults :
         /\ code_bytes' = res
         /\ IF is_err(res)
            THEN /\ pc' = "exit_failure"
                 /\ stderr' = Append(stderr, "code read")
                 /\ UNCHANGED <<address, owner_address>>
            ELSE IF ~is_eoa_of_code(res.val)
            THEN /\ pc' = "exit_failure"
                 /\ stderr' = Append(stderr, "not EOA")
                 /\ UNCHANGED <<address, owner_address>>
            ELSE /\ pc' = "fetch_history"
                 /\ owner_address' = to_lowercase(address)
                 \* cmd_args.address is not read after main.rs:160
                 /\ address' = <<>>
                 /\ UNCHANGED stderr
    /\ UNCHANGED <<txs_res, txs_len, txs_left, inserted, tx, arguments, ct_txs, rate_limit,
                   num_outputs_array, running_added_item, i, ct_txs_vec, outputs,
                   stdout, issued, failed, returned, batches, pure_vars>>

(***************************************************************************)
(* main.rs:169-215: the transaction history, and the relationship map.     *)
(***************************************************************************)
\* accounts.get_list_normal_transactions: an error is fatal (main.rs:211-214);
\* the transactions of the list are drawn as the loop reaches them
FetchHistory ==
    /\ pc = "fetch_history"
    /\ \/ /\ txs_res' = Err("explorer")
          /\ pc' = "exit_failure"
          /\ stderr' = Append(stderr, "history")
          /\ UNCHANGED <<txs_len, txs_left>>
       \/ /\ txs_res' = Ok("txs")
          /\ txs_len' \in 0..MaxTxs
          /\ txs_left' = txs_len'
          /\ pc' = "extract"
          /\ UNCHANGED stderr
    /\ UNCHANGED <<address, code_bytes, owner_address, inserted, tx, arguments, ct_txs,
                   rate_limit, num_outputs_array, running_added_item, i, ct_txs_vec,
                   outputs, stdout, issued, failed, returned, batches, pure_vars>>

\* a variant that takes failed transactions too
is_owner_approve_ignoring_error(t, owner) ==
    /\ t.from = owner
    /\ starts_with(t.input, ApproveMethodId)

\* main.rs:173
is_owner_approve(t, owner) ==
    /\ t.from = owner
    /\ ~t.is_error
    /\ starts_with(t.input, ApproveMethodId)

\* main.rs:174-176
insert_contract(map, to) ==
    IF to \in DOMAIN map THEN map
    ELSE [k \in DOMAIN map \cup {to} |-> IF k = to THEN {} ELSE map[k]]

\* a variant that takes the spender from the second argument
spender_of_second(args) == HexPrefix \o SliceFrom(args[2], SpenderOffset)

\* a variant that leaves out the "0x" of main.rs:200
spender_of_unprefixed(args) == SliceFrom(args[1], SpenderOffset)

\* main.rs:199-200
spender_of(args) == HexPrefix \o SliceFrom(args[1], SpenderOffset)

\* a variant that leaves the spender out
insert_spender_skipped(map, to, spender) == map

\* main.rs:202-207
insert_spender(map, to, spender) ==
    IF to \in DOMAIN map
    THEN [map EXCEPT ![to] = IF spender \in @ THEN @ ELSE @ \cup {spender}]
    ELSE map

\* a variant that accepts any decoded argument list
arguments_accepted_any(res) == is_ok(res)

\* main.rs:179-195: the decoded arguments are kept iff decoding succeeded with
\* at least 2 words; otherwise the process exits
arguments_accepted(res) == is_ok(res) /\ ~(Len(res.val) < MinApproveArgs)

\* one iteration of the loop of main.rs:171-209
ExtractTx ==
    /\ pc = "extract"
    /\ txs_left > 0
    /\ \E t \in TxDomain :
         /\ tx' = t
         /\ txs_left' = txs_left - 1
         /\ IF is_owner_approve(t, owner_address)
            THEN LET with_contract == insert_contract(ct_txs, t.to)
                     res == parse_256_method_arguments(t.input)
                 IN  /\ arguments' = res
                     /\ IF res.tag = "Panic"
                        THEN /\ pc' = "panicked"
                             /\ ct_txs' = with_contract
                             /\ UNCHANGED <<stderr, inserted>>
                        ELSE IF ~arguments_accepted(res)
                        THEN /\ pc' = "exit_failure"
                             /\ ct_txs' = with_contract
                             /\ stderr' = Append(stderr, "arguments")
                             /\ UNCHANGED inserted
                        ELSE /\ pc' = "extract"
                             /\ ct_txs' = insert_spender(with_contract, t.to, spender_of(res.val))
                             /\ inserted' = inserted + 1
                             /\ UNCHANGED stderr
            ELSE /\ arguments' = NotCalled
                 /\ UNCHANGED <<pc, ct_txs, stderr, inserted>>
    /\ UNCHANGED <<address, code_bytes, txs_res, owner_address, txs_len, rate_limit,
                   num_outputs_array, running_added_item, i, ct_txs_vec, outputs,
                   stdout, issued, failed, returned, batches, pure_vars>>

(***************************************************************************)
(* main.rs:33-91: query, one future per contract.                          *)
(*                                                                         *)
(* A future runs until its next await.  st is "meta" while the name and    *)
(* decimals reads are joined (main.rs:46), "allowance" while one allowance *)
(* read is awaited (main.rs:67), "ready" once the future has its output,   *)
(* "panic" if it panicked.                                                 *)
(***************************************************************************)
Pending == [tag |-> "Pending"]

RECURSIVE Gcd(_, _)
Gcd(a, b) == IF b = 0 THEN a ELSE Gcd(b, a % b)

RECURSIVE Pow10(_)
\* 10_f64.powf(decimals)
Pow10(n) == IF n = 0 THEN 1 ELSE 10 * Pow10(n - 1)

\* a variant that leaves out the division
scale_undivided(raw, decimals) == [num |-> raw, den |-> 1]

\* main.rs:87: raw / 10^decimals, as the fraction in lowest terms
scale(raw, decimals) ==
    LET den == Pow10(decimals)
        g == Gcd(raw, den)
    IN  [num |-> raw \div g, den |-> den \div g]

Read(contract, fn, spender) == [contract |-> contract, fn |-> fn, spender |-> spender]

\* the reads a future is waiting for
reads_in_flight(q) ==
    CASE q.st = "meta" ->
           {Read(q.contract_address, "name", <<>>) : x \in {q.name} \cap {Pending}}
           \cup {Read(q.contract_address, "decimals", <<>>) : x \in {q.decimals} \cap {Pending}}
      [] q.st = "allowance" -> {Read(q.contract_address, "allowance", q.spender)}
      [] OTHER -> {}

\* main.rs:38,50,54,74: Err((contract_address, err_msg))
query_err(q, err_msg) == [q EXCEPT !.st = "ready", !.output = Err(<<q.contract_address, err_msg>>)]

\* main.rs:57-62,90: Ok(result_struct)
query_ok(q) ==
    [q EXCEPT !.st = "ready",
              !.output = Ok([name |-> q.name.val,
                             address |-> q.contract_address,
                             decimals |-> q.decimals.val,
                             spender_allowances |-> q.spender_allowances])]

\* main.rs:66-67 and util.rs:160-178: the head of the for loop over spenders,
\* up to the await of the allowance read
next_allowance(q) ==
    IF q.spenders = <<>> THEN query_ok(q)
    ELSE LET spender == Head(q.spenders)
             a == allowance_addresses(q.owner_address, spender)
         IN  CASE a.tag = "Err" -> query_err(q, <<"allowance", spender>>)
               [] a.tag = "Panic" -> [q EXCEPT !.st = "panic"]
               [] OTHER -> [q EXCEPT !.st = "allowance", !.spender = spender,
                                     !.spenders = Tail(q.spenders)]

\* a variant that goes on to the allowances whatever the decimals read returned
after_metadata_name_only(q) ==
    IF is_err(q.name) THEN query_err(q, <<"name">>)
    ELSE next_allowance(q)

\* main.rs:46-62: both metadata reads have returned
after_metadata(q) ==
    IF is_err(q.name) THEN query_err(q, <<"name">>)
    ELSE IF is_err(q.decimals) THEN query_err(q, <<"decimals">>)
    ELSE next_allowance(q)

\* main.rs:43-46: the name read returns
on_name(q, res) ==
    LET q1 == [q EXCEPT !.name = res]
    IN  IF q1.decimals = Pending THEN q1 ELSE after_metadata(q1)

\* main.rs:44-46: the decimals read returns
on_decimals(q, res) ==
    LET q1 == [q EXCEPT !.decimals = res]
    IN  IF q1.name = Pending THEN q1 ELSE after_metadata(q1)

\* a variant that ends the query with the first allowance it gets
on_allowance_first_only(q, res) ==
    IF is_err(res) THEN query_err(q, <<"allowance", q.spender>>)
    ELSE query_ok(
             [q EXCEPT !.spender = <<>>,
                       !.spender_allowances =
                           [s \in DOMAIN @ \cup {q.spender} |->
                               IF s = q.spender THEN scale(res.val, q.decimals.val) ELSE @[s]]])

\* a variant that skips a spender whose read failed
on_allowance_skip_failed(q, res) ==
    IF is_err(res) THEN next_allowance([q EXCEPT !.spender = <<>>])
    ELSE next_allowance(
             [q EXCEPT !.spender = <<>>,
                       !.spender_allowances =
                           [s \in DOMAIN @ \cup {q.spender} |->
                               IF s = q.spender THEN scale(res.val, q.decimals.val) ELSE @[s]]])

\* main.rs:67-88: the allowance read of q.spender returns (from_dec_str of the
\* decimal string of a U256, main.rs:79-85, does not fail)
on_allowance(q, res) ==
    IF is_err(res) THEN query_err(q, <<"allowance", q.spender>>)
    ELSE next_allowance(
             [q EXCEPT !.spender = <<>>,
                       !.spender_allowances =
                           [s \in DOMAIN @ \cup {q.spender} |->
                               IF s = q.spender THEN scale(res.val, q.decimals.val) ELSE @[s]]])

\* main.rs:33-46: the first poll of query, up to the join of name and decimals
first_poll(contract_address, owner, spenders) ==
    LET contract == create_contract(contract_address)
        q == [contract_address |-> contract_address, owner_address |-> owner,
              spenders |-> spenders, st |-> "meta", name |-> Pending,
              decimals |-> Pending, spender |-> <<>>, spender_allowances |-> EmptyMap,
              output |-> NotCalled]
    IN  CASE contract.tag = "Err" -> query_err(q, <<contract.err>>)
          [] contract.tag = "Panic" -> [q EXCEPT !.st = "panic"]
          [] OTHER -> q

(***************************************************************************)
(* main.rs:217-266: the batches.                                           *)
(***************************************************************************)
\* the orders in which a HashMap may hand out its keys
Orders(S) ==
    {f \in [1..Cardinality(S) -> S] : \A a, b \in 1..Cardinality(S) : a # b => f[a] # f[b]}

\* main.rs:220: (len as f64 / RPC_RATE_LIMIT as f64).ceil() as usize
ceil_div(n, d) == IF n % d = 0 THEN n \div d ELSE (n \div d) + 1

\* main.rs:219-224
FinishExtraction ==
    /\ pc = "extract"
    /\ txs_left = 0
    /\ num_outputs_array' = ceil_div(Cardinality(DOMAIN ct_txs), rate_limit)
    /\ running_added_item' = 0
    /\ \E keys \in Orders(DOMAIN ct_txs) :
         ct_txs_vec' = [k \in 1..Len(keys) |-> <<keys[k], ct_txs[keys[k]]>>]
    \* into_iter moves the map; txs, tx and arguments end with the loop
    /\ ct_txs' = EmptyMap
    /\ txs_len' = 0
    /\ inserted' = 0
    /\ tx' = NoTx
    /\ arguments' = NotCalled
    /\ i' = 0
    /\ pc' = "loop"
    /\ UNCHANGED <<address, code_bytes, txs_res, owner_address, txs_left, rate_limit,
                   outputs, stdout, stderr, issued, failed, returned, batches, pure_vars>>

RECURSIVE Collect_all(_, _, _, _, _)
\* a variant of the while loop without its bound on running_added_item
Collect_all(vec, limit, idx, running, acc) ==
    IF idx * limit + running < Len(vec)
    THEN Collect_all(vec, limit, idx, running + 1, Append(acc, vec[idx * limit + running + 1]))
    ELSE <<running, acc>>

RECURSIVE Collect(_, _, _, _, _)
\* main.rs:230-237: the while loop; gives <<running_added_item, the items taken>>
Collect(vec, limit, idx, running, acc) ==
    IF running < limit /\ idx * limit + running < Len(vec)
    THEN Collect(vec, limit, idx, running + 1, Append(acc, vec[idx * limit + running + 1]))
    ELSE <<running, acc>>

\* main.rs:226-240: one batch is collected and awaited; join_all polls every
\* future once, which sends its name and decimals reads
StartBatch ==
    /\ pc = "loop"
    /\ i < num_outputs_array
    /\ LET collected == Collect(ct_txs_vec, rate_limit, i, running_added_item, <<>>)
           items == collected[2]
       IN  /\ running_added_item' = collected[1]
           /\ \E spenders_collected \in
                    [1..Len(items) -> UNION {Orders(items[k][2]) : k \in 1..Len(items)}] :
                /\ \A k \in 1..Len(items) : spenders_collected[k] \in Orders(items[k][2])
                /\ outputs' = [k \in 1..Len(items) |->
                                 first_poll(items[k][1], owner_address, spenders_collected[k])]
           /\ batches' = Append(batches, [k \in 1..Len(items) |-> items[k][1]])
    /\ issued' = issued \cup UNION {reads_in_flight(outputs'[k]) : k \in 1..Len(outputs')}
    /\ pc' = IF \E k \in 1..Len(outputs') : outputs'[k].st = "panic"
             THEN "panicked" ELSE "await_batch"
    /\ UNCHANGED <<address, code_bytes, txs_res, owner_address, txs_len, txs_left, inserted, tx, arguments,
                   ct_txs, rate_limit, num_outputs_array, i, ct_txs_vec, stdout, stderr,
                   failed, returned, pure_vars>>

\* what a completed read changes, for the future k that awaited it
ReadReturns(k, read, res, q) ==
    /\ outputs' = [outputs EXCEPT ![k] = q]
    /\ issued' = issued \cup reads_in_flight(q)
    /\ failed' = IF is_err(res) THEN failed \cup {read} ELSE failed
    /\ returned' = [r \in DOMAIN returned \cup {read} |->
                        IF r = read THEN res ELSE returned[r]]
    /\ pc' = IF q.st = "panic" THEN "panicked" ELSE pc
    /\ UNCHANGED <<address, code_bytes, txs_res, owner_address, txs_len, txs_left, inserted, tx, arguments,
                   ct_txs, rate_limit, num_outputs_array, running_added_item, i,
                   ct_txs_vec, stdout, stderr, batches, pure_vars>>

NameReturns ==
    /\ pc = "await_batch"
    /\ \E k \in 1..Len(outputs), res \in NameResults :
         /\ outputs[k].st = "meta"
         /\ outputs[k].name = Pending
         /\ ReadReturns(k, Read(outputs[k].contract_address, "name", <<>>), res,
                        on_name(outputs[k], res))

DecimalsReturns ==
    /\ pc = "await_batch"
    /\ \E k \in 1..Len(outputs), res \in DecimalsResults :
         /\ outputs[k].st = "meta"
         /\ outputs[k].decimals = Pending
         /\ ReadReturns(k, Read(outputs[k].contract_address, "decimals", <<>>), res,
                        on_decimals(outputs[k], res))

AllowanceReturns ==
    /\ pc = "await_batch"
    /\ \E k \in 1..Len(outputs), res \in AllowanceResults :
         /\ outputs[k].st = "allowance"
         /\ ReadReturns(k, Read(outputs[k].contract_address, "allowance", outputs[k].spender),
                        res, on_allowance(outputs[k], res))

\* main.rs:243-251: what is printed for one result
report_entry(res) ==
    IF is_ok(res)
    THEN [kind |-> "report", name |-> res.val.name, address |-> res.val.address,
          spender_allowances |-> res.val.spender_allowances]
    ELSE [kind |-> "error", address |-> res.err[1], message |-> res.err[2]]

\* a variant that keeps the count of the previous batch
keep_running_added_item(running) == running

\* main.rs:259-260: reset states
reset_running_added_item(running) == 0

\* a variant that resolves as soon as one future is ready, with the outputs
\* there are
join_all_first_ready(outs) ==
    LET IsReady(q) == q.st = "ready"
        ready == SelectSeq(outs, IsReady)
    IN  IF ready # <<>>
        THEN Ok([k \in 1..Len(ready) |-> ready[k].output])
        ELSE Pending

\* main.rs:240 futures::future::join_all: resolves once every future is ready,
\* with their outputs in the order of the futures
join_all(outs) ==
    IF \A k \in 1..Len(outs) : outs[k].st = "ready"
    THEN Ok([k \in 1..Len(outs) |-> outs[k].output])
    ELSE Pending

\* main.rs:240-261: the batch has resolved; its results are printed in order
EmitBatch ==
    /\ pc = "await_batch"
    /\ join_all(outputs) # Pending
    /\ LET results == join_all(outputs).val
       IN  stdout' = stdout \o [k \in 1..Len(results) |-> report_entry(results[k])]
    /\ outputs' = <<>>
    /\ IF i * rate_limit + running_added_item >= Len(ct_txs_vec)
       THEN /\ pc' = "done"
            /\ UNCHANGED <<running_added_item, i>>
       ELSE /\ running_added_item' = reset_running_added_item(running_added_item)
            /\ i' = i + 1
            /\ pc' = "loop"
    /\ UNCHANGED <<address, code_bytes, txs_res, owner_address, txs_len, txs_left, inserted, tx, arguments,
                   ct_txs, rate_limit, num_outputs_array, ct_txs_vec, stderr, issued,
                   failed, returned, batches, pure_vars>>

\* main.rs:226,263-266: the for loop has run num_outputs_array times
LoopEnd ==
    /\ pc = "loop"
    /\ ~(i < num_outputs_array)
    /\ pc' = "done"
    /\ UNCHANGED <<address, code_bytes, txs_res, owner_address, txs_len, txs_left, inserted, tx, arguments,
                   ct_txs, rate_limit, num_outputs_array, running_added_item, i,
                   ct_txs_vec, outputs, stdout, stderr, issued, failed, returned, batches,
                   pure_vars>>

Next ==
    \/ ValidateOwner
    \/ CodeReadReturns
    \/ FetchHistory
    \/ ExtractTx
    \/ FinishExtraction
    \/ StartBatch
    \/ NameReturns
    \/ DecimalsReturns
    \/ AllowanceReturns
    \/ EmitBatch
    \/ LoopEnd

Spec == Init /\ [][Next]_vars

(***************************************************************************)
(* parse_256_method_arguments called alone on a call data.                 *)
(***************************************************************************)
InitDecoder ==
    /\ pc = "decode_call"
    /\ cd \in CallDataDomain
    /\ long_hex_str = Flatten(cd)
    /\ address = <<>>
    /\ code_bytes = NotCalled
    /\ txs_res = NotCalled
    /\ owner_address = <<>>
    /\ txs_len = 0
    /\ txs_left = 0
    /\ inserted = 0
    /\ tx = NoTx
    /\ arguments = NotCalled
    /\ ct_txs = EmptyMap
    /\ rate_limit = RPC_RATE_LIMIT
    /\ num_outputs_array = 0
    /\ running_added_item = 0
    /\ i = 0
    /\ ct_txs_vec = <<>>
    /\ outputs = <<>>
    /\ stdout = <<>>
    /\ stderr = <<>>
    /\ issued = {}
    /\ failed = {}
    /\ returned = NoReads
    /\ batches = <<>>
    /\ callee = "none"
    /\ ret = NotCalled
    /\ spender_addr = <<>>

DecodeCall ==
    /\ pc = "decode_call"
    /\ arguments' = parse_256_method_arguments(long_hex_str)
    /\ pc' = "decode_ret"
    /\ UNCHANGED <<address, code_bytes, txs_res, owner_address, txs_len, txs_left, inserted, tx, ct_txs,
                   rate_limit, num_outputs_array, running_added_item, i, ct_txs_vec,
                   outputs, stdout, stderr, issued, failed, returned, batches, pure_vars>>

NextDecoder == DecodeCall

SpecDecoder == InitDecoder /\ [][NextDecoder]_vars

(***************************************************************************)
(* The functions of util.rs that take an address string, and the spender   *)
(* extraction of main.rs:197-200, each called alone on one string.         *)
(***************************************************************************)
\* 40 digits: lower-case, upper-case, mixed case, decimal digits only
DigitStrings ==
    { Rep("a", AddressDigits),
      Rep("A", AddressDigits),
      Rep("b", AddressDigits \div 2) \o Rep("F", AddressDigits \div 2),
      Rep("0", AddressDigits - 1) \o <<"9">> }

AddressPrefixes == {<<>>, HexPrefix, <<"0","X">>}

\* strings of 40 hexadecimal digits, with or without a prefix
WellFormedAddresses == {p \o d : p \in AddressPrefixes, d \in DigitStrings}

\* strings that are not: too short, too long, a character that is no digit
MalformedAddresses ==
    { <<>>,
      HexPrefix,
      Rep("a", AddressDigits - 1),
      Rep("a", AddressDigits + 1),
      Rep("a", AddressDigits + PrefixLen),
      HexPrefix \o Rep("a", AddressDigits - 1),
      HexPrefix \o Rep("A", AddressDigits + 1),
      HexPrefix \o Rep("a", AddressDigits - PrefixLen),
      <<"0","X">> \o Rep("F", AddressDigits - 1),
      Rep("a", AddressDigits - 1) \o <<"g">>,
      HexPrefix \o Rep("a", AddressDigits - 1) \o <<"G">>,
      HexPrefix \o <<"x">> \o Rep("a", AddressDigits - 1),
      <<"x","0">> \o Rep("a", AddressDigits),
      <<"0","y">> \o Rep("a", AddressDigits),
      HexPrefix \o HexPrefix \o Rep("a", AddressDigits),
      HexPrefix \o Rep("a", AddressDigits) \o <<"\n">>,
      <<" ">> \o HexPrefix \o Rep("a", AddressDigits) }

AddressDomain == WellFormedAddresses \cup MalformedAddresses

\* the 32-byte argument word of an address: its 20 bytes, left-padded with
\* zeros, as the 64 characters the call data spells them with
ArgumentWord(a) == Rep("0", SpenderOffset) \o SliceFrom(a, PrefixLen)

InitAddress ==
    /\ pc = "address_call"
    /\ address \in AddressDomain
    /\ callee = "none"
    /\ ret = NotCalled
    /\ spender_addr = <<>>
    /\ cd = NoCallData
    /\ long_hex_str = <<>>
    /\ code_bytes = NotCalled
    /\ txs_res = NotCalled
    /\ owner_address = <<>>
    /\ txs_len = 0
    /\ txs_left = 0
    /\ inserted = 0
    /\ tx = NoTx
    /\ arguments = NotCalled
    /\ ct_txs = EmptyMap
    /\ rate_limit = RPC_RATE_LIMIT
    /\ num_outputs_array = 0
    /\ running_added_item = 0
    /\ i = 0
    /\ ct_txs_vec = <<>>
    /\ outputs = <<>>
    /\ stdout = <<>>
    /\ stderr = <<>>
    /\ issued = {}
    /\ failed = {}
    /\ returned = NoReads
    /\ batches = <<>>

\* a function called on address returns r
AddressCall(name, r) ==
    /\ callee' = name
    /\ ret' = r
    /\ pc' = "address_ret"
    /\ UNCHANGED <<address, code_bytes, txs_res, owner_address, txs_len, txs_left, inserted,
                   tx, arguments, ct_txs, rate_limit, num_outputs_array, running_added_item,
                   i, ct_txs_vec, outputs, stdout, stderr, issued, failed, returned,
                   batches, decoder_vars, spender_addr>>

\* util.rs:24-29
ValidateCall ==
    /\ pc = "address_call"
    /\ AddressCall("validate_address_format", Ok(validate_address_format(address)))

\* util.rs:37-52, up to the eth_getCode call
EoaCheckCall ==
    /\ pc = "address_call"
    /\ AddressCall("perform_check_is_eoa", eoa_check_address(address))

\* util.rs:75-81
GetAddressCall ==
    /\ pc = "address_call"
    /\ AddressCall("get_address_from_str", get_address_from_str(address))

\* util.rs:131-140
CreateContractCall ==
    /\ pc = "address_call"
    /\ AddressCall("create_contract", create_contract(address))

\* util.rs:160-175, the address being the owner's
AllowanceOwnerCall ==
    /\ pc = "address_call"
    /\ AddressCall("query_allowance_balance(owner)", allowance_addresses(address, Addr("e")))

\* util.rs:160-175, the address being the spender's
AllowanceSpenderCall ==
    /\ pc = "address_call"
    /\ AddressCall("query_allowance_balance(spender)", allowance_addresses(Addr("a"), address))

\* main.rs:179-200 on the call data of approve(address, 1), address being a
\* prefixed string of 40 digits
ExtractSpenderCall ==
    /\ pc = "address_call"
    /\ validate_address_format(address)
    /\ Len(address) = PrefixLen + AddressDigits
    /\ LET res == parse_256_method_arguments(
                      ApproveMethodId \o ArgumentWord(address) \o Amount1)
       IN  /\ arguments_accepted(res)
           /\ arguments' = res
           /\ spender_addr' = spender_of(res.val)
    /\ callee' = "spender_addr"
    /\ pc' = "address_ret"
    /\ UNCHANGED <<address, code_bytes, txs_res, owner_address, txs_len, txs_left, inserted,
                   tx, ct_txs, rate_limit, num_outputs_array, running_added_item, i,
                   ct_txs_vec, outputs, stdout, stderr, issued, failed, returned, batches,
                   decoder_vars, ret>>

NextAddress ==
    \/ ValidateCall
    \/ EoaCheckCall
    \/ GetAddressCall
    \/ CreateContractCall
    \/ AllowanceOwnerCall
    \/ AllowanceSpenderCall
    \/ ExtractSpenderCall

SpecAddress == InitAddress /\ [][NextAddress]_vars

(***************************************************************************)
(* What the properties below speak of.                                     *)
(***************************************************************************)
\* the (contract, spender) pairs of a relationship map
PairsOf(map) == UNION {{<<c, s>> : s \in map[c]} : c \in DOMAIN map}

\* the contracts the batched querier works on
QueriedContracts == {ct_txs_vec[k][1] : k \in 1..Len(ct_txs_vec)}

\* the spenders of a queried contract
SpendersOf(c) == UNION {ct_txs_vec[k][2] : k \in {j \in 1..Len(ct_txs_vec) : ct_txs_vec[j][1] = c}}

\* the report entries printed for a contract
EntriesOf(c) == {e \in 1..Len(stdout) : stdout[e].address = c}

\* the least number of batches of at most size contracts that hold n contracts
BatchesNeeded(n, size) == CHOOSE b \in 0..n : b * size >= n /\ (b = 0 \/ (b - 1) * size < n)

\* the part of a call data after "0x" and the method-id
Remainder(input) == IF Len(input) >= MethodIdEnd THEN SliceFrom(input, MethodIdEnd) ELSE <<>>

\* characters 25-64 of the first argument word, behind "0x"
SpenderOfCallData(input) ==
    IF Len(input) >= MethodIdEnd + WordLen
    THEN HexPrefix \o SubSeq(input, MethodIdEnd + SpenderOffset + 1, MethodIdEnd + WordLen)
    ELSE <<>>

\* the loop of main.rs:171 has just dealt with tx
JustProcessed == pc \in {"extract", "exit_failure", "panicked"} /\ tx # NoTx

\* tx passes the inclusion test as the program applies it
TxIncluded ==
    /\ tx.from = owner_address
    /\ ~tx.is_error
    /\ starts_with(tx.input, ApproveMethodId)

\* no read of a contract was sent, no future made and no report entry printed
NothingQueried == issued = {} /\ outputs = <<>> /\ batches = <<>> /\ stdout = <<>>

(***************************************************************************)
(* C1 - Chunking.  A finished run over N contracts with chunk size C has   *)
(* awaited exactly ceil(N/C) batches (none when N = 0), each of at most C  *)
(* queries; every contract of the relationship set is in exactly one       *)
(* batch, and the report holds exactly one entry per contract, decided by  *)
(* that contract's own reads (an error entry iff one of them failed, else  *)
(* a success entry over all its spenders): what one batch of all N would   *)
(* print.  At any time no more than ceil(N/C) batches of at most C have    *)
(* started.                                                                *)
(***************************************************************************)
C1_Chunking ==
    /\ \A b \in 1..Len(batches) : Len(batches[b]) <= rate_limit
    /\ pc \in {"loop", "await_batch", "done"} =>
         Len(batches) <= BatchesNeeded(Len(ct_txs_vec), rate_limit)
    /\ pc = "done" =>
         /\ Len(batches) = BatchesNeeded(Len(ct_txs_vec), rate_limit)
         /\ \A c \in QueriedContracts :
              /\ Cardinality({<<b, k>> \in (1..Len(batches)) \X (1..Len(ct_txs_vec)) :
                                 k <= Len(batches[b]) /\ batches[b][k] = c}) = 1
              /\ Cardinality(EntriesOf(c)) = 1
              /\ \A e \in EntriesOf(c) :
                   /\ stdout[e].kind = "error" <=> \E r \in failed : r.contract = c
                   /\ stdout[e].kind = "report" =>
                        DOMAIN stdout[e].spender_allowances = SpendersOf(c)
         /\ Len(stdout) = Len(ct_txs_vec)

\* a finished run of two batches over three contracts
C1_Witness ==
    /\ pc = "done"
    /\ Len(ct_txs_vec) = 3
    /\ rate_limit = 2
    /\ Len(batches) = 2
    /\ Len(stdout) = 3

(***************************************************************************)
(* C2 - Failure isolation.  In a finished run, a contract one of whose     *)
(* reads failed has exactly one report entry, an error entry with its      *)
(* address and a message; a contract none of whose reads failed has        *)
(* exactly one entry, the success entry over all its spenders, whatever    *)
(* failed elsewhere; and once a read has failed the run never exits with   *)
(* a failure.                                                              *)
(***************************************************************************)
C2_FailureIsolation ==
    /\ failed # {} => pc \notin {"exit_failure", "panicked"}
    /\ pc = "done" =>
         \A c \in QueriedContracts :
            /\ Cardinality(EntriesOf(c)) = 1
            /\ \A e \in EntriesOf(c) :
                 IF \E r \in failed : r.contract = c
                 THEN /\ stdout[e].kind = "error"
                      /\ stdout[e].message # <<>>
                 ELSE /\ stdout[e].kind = "report"
                      /\ DOMAIN stdout[e].spender_allowances = SpendersOf(c)

\* a finished run with a failed read, an error entry and a success entry
C2_Witness ==
    /\ pc = "done"
    /\ failed # {}
    /\ \E e \in 1..Len(stdout) : stdout[e].kind = "error"
    /\ \E e \in 1..Len(stdout) :
         /\ stdout[e].kind = "report"
         /\ \A r \in failed : r.contract # stdout[e].address

(***************************************************************************)
(* C3 - Fatal validation.  If the owner address has an invalid format, or  *)
(* its account has code, or the history fetch failed, the run has exited   *)
(* with a failure, no contract read was sent and no report entry printed;  *)
(* in the first two cases the history was not fetched either.              *)
(***************************************************************************)
C3_FatalValidation ==
    LET bad_format == pc # "start" /\ address # <<>> /\ ~validate_address_format(address)
        non_eoa == is_ok(code_bytes) /\ code_bytes.val > 0
    IN  /\ (bad_format \/ non_eoa \/ is_err(txs_res)) => (pc = "exit_failure" /\ NothingQueried)
        /\ (bad_format \/ non_eoa) => txs_res = NotCalled

\* the run exited because the owner is a contract account
C3_Witness ==
    /\ pc = "exit_failure"
    /\ is_ok(code_bytes)
    /\ code_bytes.val > 0

(***************************************************************************)
(* C4 - Case normalization of map keys.  The relationship set never holds  *)
(* two contracts, nor two spenders of one contract, that are the same      *)
(* address in different letter case.                                       *)
(***************************************************************************)
C4_NoCaseDuplicates ==
    /\ \A a, b \in QueriedContracts : to_lowercase(a) = to_lowercase(b) => a = b
    /\ \A c \in QueriedContracts :
         \A a, b \in SpendersOf(c) : to_lowercase(a) = to_lowercase(b) => a = b

(***************************************************************************)
(* C5 - Inclusion is complete.  Once the loop has dealt with a             *)
(* transaction whose from is the owner address up to letter case, that     *)
(* did not fail, and whose call data is the approve method-id and at       *)
(* least two words, the map holds (tx.to, spender of word 0).              *)
(***************************************************************************)
C5_InclusionComplete ==
    ( /\ JustProcessed
      /\ to_lowercase(tx.from) = to_lowercase(owner_address)
      /\ ~tx.is_error
      /\ starts_with(tx.input, ApproveMethodId)
      /\ Len(Remainder(tx.input)) >= MinApproveArgs * WordLen )
    => <<tx.to, SpenderOfCallData(tx.input)>> \in PairsOf(ct_txs)

(***************************************************************************)
(* C6 - Exclusion.  An iteration over a transaction that failed, or whose  *)
(* from is not the owner, or whose call data does not start with the       *)
(* approve method-id leaves the map as it was, decodes nothing and does    *)
(* not end the run; any other iteration adds at most the pair              *)
(* (tx.to, spender of word 0) of its transaction.                          *)
(***************************************************************************)
C6_Exclusion ==
    [][ (pc = "extract" /\ txs_left' = txs_left - 1) =>
          IF tx'.is_error \/ tx'.from # owner_address \/ ~starts_with(tx'.input, ApproveMethodId)
          THEN ct_txs' = ct_txs /\ arguments' = NotCalled /\ pc' = "extract"
          ELSE PairsOf(ct_txs') \subseteq
                   PairsOf(ct_txs) \cup {<<tx'.to, SpenderOfCallData(tx'.input)>>} ]_vars

\* a failed approve call of the owner was passed over, with a map already filled
C6_Witness ==
    /\ pc = "extract"
    /\ tx.from = owner_address
    /\ tx.is_error
    /\ starts_with(tx.input, ApproveMethodId)
    /\ arguments = NotCalled
    /\ PairsOf(ct_txs) # {}
    /\ tx.to \notin DOMAIN ct_txs

(***************************************************************************)
(* C7 - Deduplication.  An iteration that inserts a relationship makes     *)
(* the pairs of the map those it had plus (tx.to, spender of word 0), so   *)
(* the amount word plays no part; if the pair was there the map is left    *)
(* as it was, and inserting the same relationship once more changes        *)
(* nothing.                                                                *)
(***************************************************************************)
C7_Deduplication ==
    [][ (pc = "extract" /\ txs_left' = txs_left - 1 /\ inserted' = inserted + 1) =>
          LET pair == <<tx'.to, SpenderOfCallData(tx'.input)>>
          IN  /\ PairsOf(ct_txs') = PairsOf(ct_txs) \cup {pair}
              /\ DOMAIN ct_txs' = DOMAIN ct_txs \cup {tx'.to}
              /\ pair \in PairsOf(ct_txs) => ct_txs' = ct_txs
              /\ insert_spender(insert_contract(ct_txs', pair[1]), pair[1], pair[2]) = ct_txs' ]_vars

\* two insertions, the last with amount 1000, left one relationship
C7_Witness ==
    /\ pc = "extract"
    /\ inserted = 2
    /\ tx.input = ApproveInput("e", Amount1000)
    /\ PairsOf(ct_txs) = {<<CtLower, Addr("e")>>}

(***************************************************************************)
(* C8 - parse_256_method_arguments on "0x", a method-id and a remainder.   *)
(* As claimed: it fails whenever the remainder is not a positive multiple  *)
(* of 64 characters.                                                       *)
(***************************************************************************)
C8_FailsUnlessWholeWords ==
    ( /\ pc = "decode_ret"
      /\ Len(cd.head) = MethodIdEnd
      /\ ~(Len(Remainder(long_hex_str)) > 0 /\ Len(Remainder(long_hex_str)) % WordLen = 0) )
    => is_err(arguments)

(***************************************************************************)
(* C8, amended - it fails whenever the remainder is shorter than 64        *)
(* characters (an empty one included); a remainder of one or more whole    *)
(* words and a trailing partial word gives the whole words, the partial    *)
(* word dropped.                                                           *)
(***************************************************************************)
C8_FailsWhenShorterThanWord ==
    (pc = "decode_ret" /\ Len(cd.head) = MethodIdEnd) =>
        /\ Len(Remainder(long_hex_str)) < WordLen => is_err(arguments)
        /\ (Len(cd.words) >= 1 /\ cd.tail # <<>>) => arguments = Ok(cd.words)

\* whole words and a trailing partial word were decoded
C8_Witness ==
    /\ pc = "decode_ret"
    /\ Len(cd.head) = MethodIdEnd
    /\ Len(cd.words) >= 1
    /\ cd.tail # <<>>
    /\ is_ok(arguments)

(***************************************************************************)
(* C9 - parse_256_method_arguments on "0x", a method-id and k whole words  *)
(* gives exactly those k words in their order, each of 64 characters, when *)
(* k >= 1, and fails when k = 0.                                           *)
(***************************************************************************)
C9_WholeWordsDecoded ==
    (pc = "decode_ret" /\ Len(cd.head) = MethodIdEnd /\ cd.tail = <<>>) =>
        IF cd.words = <<>>
        THEN is_err(arguments)
        ELSE /\ arguments = Ok(cd.words)
             /\ \A k \in 1..Len(arguments.val) : Len(arguments.val[k]) = WordLen

\* an approve call data of two words was decoded
C9_Witness ==
    /\ pc = "decode_ret"
    /\ cd.head = ApproveMethodId
    /\ Len(cd.words) = 2
    /\ cd.tail = <<>>
    /\ arguments = Ok(cd.words)

(***************************************************************************)
(* C10 - Malformed approve call data is fatal.  Once the loop has dealt    *)
(* with a transaction that passes the inclusion test and whose call data   *)
(* holds fewer than two whole words, the run has exited with a failure,    *)
(* no contract read was sent and no report entry printed.                  *)
(***************************************************************************)
C10_MalformedIsFatal ==
    ( /\ JustProcessed
      /\ TxIncluded
      /\ Len(Remainder(tx.input)) < MinApproveArgs * WordLen )
    => (pc = "exit_failure" /\ NothingQueried)

\* the run exited on a one-word approve call after a well-formed one was inserted
C10_Witness ==
    /\ pc = "exit_failure"
    /\ TxIncluded
    /\ tx.input = ApproveMethodId \o AddressWord("e")
    /\ inserted >= 1
    /\ PairsOf(ct_txs) # {}

(***************************************************************************)
(* What the properties of the address functions speak of.                  *)
(***************************************************************************)
\* a character in upper case
UpperChar(ch) ==
    IF \E k \in 1..Len(LowerLetters) : LowerLetters[k] = ch
    THEN UpperLetters[CHOOSE k \in 1..Len(LowerLetters) : LowerLetters[k] = ch]
    ELSE ch

\* a string in upper case
to_uppercase(s) == [k \in 1..Len(s) |-> UpperChar(s[k])]

\* a string without its "0x" or "0X", if it starts with one
WithoutPrefix(s) ==
    IF Len(s) >= PrefixLen /\ s[1] = "0" /\ s[2] \in {"x", "X"}
    THEN SubSeq(s, PrefixLen + 1, Len(s))
    ELSE s

\* exactly 40 hexadecimal characters, of either case
FortyHexDigits(s) == Len(s) = AddressDigits /\ \A k \in 1..Len(s) : s[k] \in HexAny

\* the 20 bytes a well-formed address string denotes, each as two lower-case digits
DenotedBytes(s) ==
    LET digits == WithoutPrefix(s)
    IN  [k \in 1..AddressBytes |-> <<LowerChar(digits[2 * k - 1]), LowerChar(digits[2 * k])>>]

(***************************************************************************)
(* C11 - validate_address_format answers true iff the string, without an   *)
(* optional "0x" and whatever the case of its letters, is exactly 40       *)
(* hexadecimal characters; the lower-case and upper-case spellings of a    *)
(* string get the answer the string gets, and so do the prefixed and the   *)
(* unprefixed spelling of 40 digits.                                       *)
(***************************************************************************)
C11_ValidateFormat ==
    (pc = "address_ret" /\ callee = "validate_address_format") =>
        /\ ret.val <=> FortyHexDigits(WithoutPrefix(address))
        /\ validate_address_format(to_lowercase(address)) = ret.val
        /\ validate_address_format(to_uppercase(address)) = ret.val
        /\ FortyHexDigits(WithoutPrefix(address)) =>
             /\ validate_address_format(WithoutPrefix(address))
             /\ validate_address_format(HexPrefix \o WithoutPrefix(address))
        /\ (Len(WithoutPrefix(address)) # AddressDigits) => ~ret.val

\* a prefixed address of mixed case was accepted
C11_Witness ==
    /\ pc = "address_ret"
    /\ callee = "validate_address_format"
    /\ address = HexPrefix \o Rep("b", AddressDigits \div 2) \o Rep("F", AddressDigits \div 2)
    /\ ret = Ok(TRUE)

(***************************************************************************)
(* C12 - Scaling.  In every success entry printed, the name is what the    *)
(* name read of that contract returned, and the value of each spender is   *)
(* what the allowance read of that spender returned divided by 10 to the   *)
(* power of what the decimals read of that contract returned; a raw        *)
(* allowance of 500 with 2 decimals is reported as 5.                      *)
(***************************************************************************)
C12_Scaling ==
    \A e \in 1..Len(stdout) :
       stdout[e].kind = "report" =>
          LET c == stdout[e].address
              name_read == Read(c, "name", <<>>)
              decimals_read == Read(c, "decimals", <<>>)
          IN  /\ {name_read, decimals_read} \subseteq DOMAIN returned
              /\ returned[name_read] = Ok(stdout[e].name)
              /\ is_ok(returned[decimals_read])
              /\ \A s \in DOMAIN stdout[e].spender_allowances :
                    LET allowance_read == Read(c, "allowance", s)
                        v == stdout[e].spender_allowances[s]
                    IN  /\ allowance_read \in DOMAIN returned
                        /\ is_ok(returned[allowance_read])
                        /\ v.den > 0
                        /\ v.num * Pow10(returned[decimals_read].val)
                              = returned[allowance_read].val * v.den
                        /\ ( /\ returned[allowance_read] = Ok(500)
                             /\ returned[decimals_read] = Ok(2) )
                           => v = [num |-> 5, den |-> 1]

\* a success entry was printed with 5 for a raw allowance of 500 and 2 decimals
C12_Witness ==
    \E e \in 1..Len(stdout) :
       /\ stdout[e].kind = "report"
       /\ stdout[e].name = "TOK"
       /\ returned[Read(stdout[e].address, "decimals", <<>>)] = Ok(2)
       /\ \E s \in DOMAIN stdout[e].spender_allowances :
            /\ returned[Read(stdout[e].address, "allowance", s)] = Ok(500)
            /\ stdout[e].spender_allowances[s] = [num |-> 5, den |-> 1]

(***************************************************************************)
(* What the properties of the reads speak of.                              *)
(***************************************************************************)
\* the allowance reads sent for a contract
AllowanceReadsOf(c) == {r \in issued : r.contract = c /\ r.fn = "allowance"}

\* the name and decimals reads sent for a contract
MetadataReadsOf(c) == {r \in issued : r.contract = c /\ r.fn \in {"name", "decimals"}}

\* the reads sent that have not returned
InFlight == issued \ DOMAIN returned

\* the contracts of the batches started so far
Started == UNION {{batches[b][k] : k \in 1..Len(batches[b])} : b \in 1..Len(batches)}

(***************************************************************************)
(* C13 - Allowance reads of one contract.  As claimed: they are sent       *)
(* together, so once one is sent one is sent for every spender of the      *)
(* contract, and a contract whose metadata reads succeeded has had as many *)
(* allowance reads sent as it has spenders, even when one of them failed.  *)
(***************************************************************************)
C13_AllowanceReadsConcurrent ==
    \A c \in QueriedContracts :
       /\ AllowanceReadsOf(c) # {} =>
             {r.spender : r \in AllowanceReadsOf(c)} = SpendersOf(c)
       /\ ( /\ pc = "done"
            /\ \A r \in MetadataReadsOf(c) : r \notin failed )
          => Cardinality(AllowanceReadsOf(c)) = Cardinality(SpendersOf(c))

(***************************************************************************)
(* C13, amended - they are sent one at a time: one is sent for a spender   *)
(* of the contract only, and only when every allowance read sent before    *)
(* for that contract has returned a value; so at most one of them is in    *)
(* flight, after one has failed none is sent for the spenders left, and a  *)
(* finished run has sent one for every spender of a contract none of       *)
(* whose reads failed.                                                     *)
(***************************************************************************)
C13_AllowanceReadsOneAtATime ==
    \A c \in QueriedContracts :
       /\ {r.spender : r \in AllowanceReadsOf(c)} \subseteq SpendersOf(c)
       /\ Cardinality({r \in AllowanceReadsOf(c) : r \in InFlight \/ r \in failed}) <= 1
       /\ ( /\ pc = "done"
            /\ \A r \in failed : r.contract # c )
          => {r.spender : r \in AllowanceReadsOf(c)} = SpendersOf(c)

\* a finished run where the first allowance read of a contract of two spenders
\* failed, and no read was sent for the other spender
C13_Witness ==
    /\ pc = "done"
    /\ \E c \in QueriedContracts :
         /\ Cardinality(SpendersOf(c)) = 2
         /\ Cardinality(AllowanceReadsOf(c)) = 1
         /\ AllowanceReadsOf(c) \subseteq failed

(***************************************************************************)
(* C14 - Chunks are sequential.  Every read sent is of a contract of a     *)
(* batch that has started; every read in flight is of a contract of the    *)
(* batch started last; and every contract of each earlier batch has no     *)
(* read in flight and has its report entry printed.  So no read of a       *)
(* batch is sent before every query of the batch before it has resolved    *)
(* and its entries are printed.                                            *)
(***************************************************************************)
C14_ChunksSequential ==
    /\ \A r \in issued : r.contract \in Started
    /\ \A r \in InFlight :
          \E k \in 1..Len(batches[Len(batches)]) : batches[Len(batches)][k] = r.contract
    /\ \A b \in 1..(Len(batches) - 1) :
          \A k \in 1..Len(batches[b]) :
             /\ EntriesOf(batches[b][k]) # {}
             /\ \A r \in InFlight : r.contract # batches[b][k]
    /\ pc = "loop" => (outputs = <<>> /\ InFlight = {})

\* the reads of a second batch are in flight, the entries of the first printed
C14_Witness ==
    /\ pc = "await_batch"
    /\ Len(batches) = 2
    /\ InFlight # {}
    /\ Len(stdout) = Len(batches[1])
    /\ Len(stdout) = 2

(***************************************************************************)
(* C15 - Metadata gate.  A contract whose query has started has had both   *)
(* its name read and its decimals read sent; an allowance read of it is    *)
(* sent only once both have returned a value; and if one of the two        *)
(* failed, no allowance read of the contract is sent, the query waits for  *)
(* the other, and the entry printed for the contract is an error entry.    *)
(***************************************************************************)
C15_MetadataGate ==
    \A c \in Started :
       LET name_read == Read(c, "name", <<>>)
           decimals_read == Read(c, "decimals", <<>>)
       IN  /\ {name_read, decimals_read} \subseteq issued
           /\ AllowanceReadsOf(c) # {} =>
                 /\ {name_read, decimals_read} \subseteq DOMAIN returned
                 /\ is_ok(returned[name_read])
                 /\ is_ok(returned[decimals_read])
           /\ (name_read \in failed \/ decimals_read \in failed) =>
                 /\ AllowanceReadsOf(c) = {}
                 /\ \A e \in EntriesOf(c) :
                       /\ stdout[e].kind = "error"
                       /\ {name_read, decimals_read} \subseteq DOMAIN returned
                 /\ pc = "done" => EntriesOf(c) # {}

\* a finished run: the decimals read of a contract failed, its name read
\* returned a name, no allowance read was sent and an error entry printed
C15_Witness ==
    /\ pc = "done"
    /\ \E c \in Started :
         /\ Read(c, "decimals", <<>>) \in failed
         /\ returned[Read(c, "name", <<>>)] = Ok("TOK")
         /\ AllowanceReadsOf(c) = {}
         /\ \E e \in EntriesOf(c) : stdout[e].kind = "error"

(***************************************************************************)
(* C16 - Reads in flight.  At any time the number of reads sent that have  *)
(* not returned is at most the chunk size times 2 plus the largest number  *)
(* of spenders of a contract of the relationship set; and the batch        *)
(* awaited holds at most chunk size queries.                               *)
(***************************************************************************)
C16_InFlightBound ==
    LET counts == {Cardinality(SpendersOf(c)) : c \in QueriedContracts} \cup {0}
        max_spenders == CHOOSE n \in counts : \A m \in counts : m <= n
    IN  /\ Cardinality(InFlight) <= rate_limit * (2 + max_spenders)
        /\ Len(outputs) <= rate_limit

\* a batch of two queries has four reads in flight, a third contract waiting
C16_Witness ==
    /\ pc = "await_batch"
    /\ rate_limit = 2
    /\ Len(ct_txs_vec) = 3
    /\ Cardinality(InFlight) = 4

(***************************************************************************)
(* C17 - Metadata once per contract address.  Of the name reads sent in a  *)
(* run no two go to the same 20-byte contract address, and neither do two  *)
(* of the decimals reads, whatever the letter case in which the history    *)
(* spells the address.                                                     *)
(***************************************************************************)
C17_MetadataOncePerAddress ==
    \A r1, r2 \in issued :
       ( /\ r1.fn \in {"name", "decimals"}
         /\ r1.fn = r2.fn
         /\ create_contract(r1.contract) = create_contract(r2.contract) )
       => r1 = r2

(***************************************************************************)
(* C18 - Report completeness.  The entries printed are of contracts of the *)
(* relationship set, at most one for a contract, each a success entry or   *)
(* an error entry; a success entry holds a value for every spender of its  *)
(* contract and for no other address, and each value is the scaled         *)
(* allowance returned for that spender; a finished run has printed exactly *)
(* one entry for every contract.                                           *)
(***************************************************************************)
C18_ReportComplete ==
    /\ \A e \in 1..Len(stdout) :
          /\ stdout[e].address \in QueriedContracts
          /\ stdout[e].kind \in {"report", "error"}
          /\ \A f \in 1..Len(stdout) : stdout[f].address = stdout[e].address => f = e
          /\ stdout[e].kind = "report" =>
                /\ DOMAIN stdout[e].spender_allowances = SpendersOf(stdout[e].address)
                /\ \A s \in SpendersOf(stdout[e].address) :
                      LET allowance_read == Read(stdout[e].address, "allowance", s)
                          decimals_read == Read(stdout[e].address, "decimals", <<>>)
                      IN  /\ {allowance_read, decimals_read} \subseteq DOMAIN returned
                          /\ is_ok(returned[allowance_read])
                          /\ is_ok(returned[decimals_read])
                          /\ stdout[e].spender_allowances[s] =
                                scale(returned[allowance_read].val, returned[decimals_read].val)
    /\ pc = "done" =>
          /\ \A c \in QueriedContracts : Cardinality(EntriesOf(c)) = 1
          /\ Len(stdout) = Cardinality(QueriedContracts)

\* a finished run printed a success entry over two spenders and an error entry
C18_Witness ==
    /\ pc = "done"
    /\ Len(stdout) = 2
    /\ \E e \in 1..Len(stdout) :
         /\ stdout[e].kind = "report"
         /\ Cardinality(DOMAIN stdout[e].spender_allowances) = 2
    /\ \E e \in 1..Len(stdout) : stdout[e].kind = "error"

\* lower case, "0x" and 40 hexadecimal digits
Canonical(s) ==
    /\ Len(s) = PrefixLen + AddressDigits
    /\ starts_with(s, HexPrefix)
    /\ \A k \in (PrefixLen + 1)..Len(s) : s[k] \in HexLower

(***************************************************************************)
(* C19 - Spender extraction round-trips.  The spender taken from the call  *)
(* data of an approve call whose first argument word is 24 zeros and the   *)
(* 40 digits of an address is "0x" and those 40 digits: the address        *)
(* itself when it is canonical; and taking it once more from the same      *)
(* word gives the same string.                                             *)
(***************************************************************************)
C19_SpenderRoundTrip ==
    (pc = "address_ret" /\ callee = "spender_addr") =>
        /\ arguments.val[1] = Rep("0", SpenderOffset) \o WithoutPrefix(address)
        /\ spender_addr = HexPrefix \o WithoutPrefix(address)
        /\ Canonical(address) => spender_addr = address
        /\ spender_of(arguments.val) = spender_addr

\* the spender of the word of 0x000...09 is 0x000...09
C19_Witness ==
    /\ pc = "address_ret"
    /\ callee = "spender_addr"
    /\ address = HexPrefix \o Rep("0", AddressDigits - 1) \o <<"9">>
    /\ Canonical(address)
    /\ spender_addr = address

(***************************************************************************)
(* C20 - Accepted addresses are handled.  Called on a string that          *)
(* validate_address_format accepts, perform_check_is_eoa (up to its read), *)
(* get_address_from_str, create_contract and query_allowance_balance (up   *)
(* to its read) each return Ok or Err, never panic, and on Ok work on the  *)
(* 20 bytes the string denotes, a string without the "0x" prefix included. *)
(***************************************************************************)
C20_AcceptedAddressHandled ==
    ( /\ pc = "address_ret"
      /\ callee \in {"perform_check_is_eoa", "get_address_from_str", "create_contract",
                     "query_allowance_balance(owner)", "query_allowance_balance(spender)"}
      /\ validate_address_format(address) )
    => /\ ret.tag \in {"Ok", "Err"}
       /\ is_ok(ret) =>
            CASE callee = "query_allowance_balance(owner)" -> ret.val[1] = DenotedBytes(address)
              [] callee = "query_allowance_balance(spender)" -> ret.val[2] = DenotedBytes(address)
              [] OTHER -> ret.val = DenotedBytes(address)

(***************************************************************************)
(* C21 - No contract without a spender is queried.  While the loop over    *)
(* the history runs, and once the batched querier has started, every       *)
(* contract key has a spender set that is not empty, and every read sent   *)
(* is of a contract with a spender; a key with an empty set, inserted      *)
(* before the call data of its transaction was decoded, is there only in   *)
(* a run that has exited on that transaction.                              *)
(***************************************************************************)
C21_SpenderSetsNotEmpty ==
    /\ pc = "extract" => \A c \in DOMAIN ct_txs : ct_txs[c] # {}
    /\ (\E c \in DOMAIN ct_txs : ct_txs[c] = {}) =>
          /\ pc \in {"exit_failure", "panicked"}
          /\ ct_txs[tx.to] = {}
          /\ \A c \in DOMAIN ct_txs : ct_txs[c] = {} => c = tx.to
          /\ NothingQueried
    /\ \A k \in 1..Len(ct_txs_vec) : ct_txs_vec[k][2] # {}
    /\ \A r \in issued : SpendersOf(r.contract) # {}

\* the batched querier is about to start on two contracts
C21_Witness ==
    /\ pc = "loop"
    /\ batches = <<>>
    /\ Len(ct_txs_vec) = 2
    /\ \A k \in 1..Len(ct_txs_vec) : ct_txs_vec[k][2] # {}

=============================================================================
